---- MODULE Spec2Model ----
(***************************************************************************)
(* A model of the number-theory toolkit: ModExp::mod_exp                   *)
(* (src/src/numbers/operations/mod_exp.rs) and generate, is_prime_trial    *)
(* and fermat_primality_test (src/src/numbers/primes.rs).                  *)
(*                                                                         *)
(* One behaviour is one call of one operation: Init picks the operation    *)
(* and its arguments, the actions are the steps of its body, and the call  *)
(* ends in pc = "done" (it returned, ret holds the value) or pc = "panic"  *)
(* (it panicked, fault says why).                                          *)
(***************************************************************************)
EXTENDS Integers, Sequences, FiniteSets

VARIABLES
    op,                      \* the operation this behaviour runs
    pc,                      \* position in its body
    fault,                   \* why it panicked, "none" otherwise
    ret,                     \* the returned value, "none" before the return
    \* ModExp::mod_exp
    ty,                      \* the integer type Self
    overflow_checks,         \* the build panics on overflow (debug) or wraps (release)
    base, exponent, modulus, \* the arguments
    result,                  \* the accumulator
    wrapped,                 \* some product of this call has wrapped around
    i,                       \* the loop counter (of mod_exp, of the trial range, of the Fermat rounds)
    \* generate
    upto,
    prime_flags,
    current_smallest_prime,
    current_multiplier,
    \* is_prime_trial and fermat_primality_test
    n,
    square_root,
    tests,                   \* divisibility tests made by is_prime_trial
    repeats_count,
    random_number,           \* the last witness drawn, 0 when none was
    calls,                   \* calls of mod_exp made by fermat_primality_test
    call_args                \* the arguments of the call of the current round, <<>> before it

vars == <<op, pc, fault, ret, ty, overflow_checks, base, exponent, modulus, result,
          wrapped, i, upto, prime_flags, current_smallest_prime, current_multiplier,
          n, square_root, tests, repeats_count, random_number, calls, call_args>>

modExpVars == <<ty, overflow_checks, base, exponent, modulus, result, wrapped>>

generateVars == <<upto, prime_flags, current_smallest_prime, current_multiplier>>

trialVars == <<square_root, tests>>

fermatVars == <<repeats_count, random_number, calls, call_args>>

(***************************************************************************)
(* Bounds of the model.                                                    *)
(***************************************************************************)
MaxUpto == 50

MaxN == 30

MaxBase == 5

MaxExponent == 4

MaxModulus == 5

NegSpan == 2

MaxRepeats == 2

(***************************************************************************)
(* Numbers the repository's tests use.                                     *)
(***************************************************************************)
TestRepeats == 100

ZeroTestRepeats == 10

NotPrimeNumbers == {0, 1, 4, 6, 8, 9, 10, 12, 14, 15, 16, 18, 20, 21, 22}

ModExpTestVectors == {<<4, 13, 497>>, <<5, 3, 13>>}

(***************************************************************************)
(* Mathematics the claims are stated against (not models of the code).     *)
(***************************************************************************)
Max(a, b) == IF a >= b THEN a ELSE b

Abs(a) == IF a >= 0 THEN a ELSE -a

Range(s) == {s[k] : k \in DOMAIN s}

Isqrt(x) == CHOOSE r \in 0..x : r * r <= x /\ (r + 1) * (r + 1) > x

IsPrime(v) == v >= 2 /\ \A d \in 2..(v - 1) : v % d # 0

RECURSIVE PowMod(_, _, _)
PowMod(b, e, m) ==
    IF e = 0 THEN 1 % m ELSE ((b % m) * PowMod(b, e - 1, m)) % m

(***************************************************************************)
(* Fixed-width integers.  mod_exp is implemented for every primitive       *)
(* integer type; the model runs it at u8, i8, i16 and i32, and             *)
(* fermat_primality_test calls it at u64.  TLC's integers are 32           *)
(* bits wide: an i32 call is given arguments whose products stay below     *)
(* 2^31, and a u64 call (n <= MaxN) has products far below 2^64, so for    *)
(* u64 only the lower end of the range is compared.                        *)
(***************************************************************************)
Types == {"u8", "i8", "i16", "i32"}

NarrowTypes == {"u8", "i8", "i16"}

Signed(t) == t \in {"i8", "i16", "i32"}

TypeMax(t) ==
    CASE t = "u8" -> 255
      [] t = "i8" -> 127
      [] t = "i16" -> 32767
      [] t = "i32" -> 2147483647

TypeMin(t) ==
    CASE t = "u8" -> 0
      [] t = "i8" -> -128
      [] t = "i16" -> -32768
      [] t = "i32" -> -2147483647 - 1

Fits(t, x) ==
    IF t = "u64" THEN x >= 0 ELSE TypeMin(t) <= x /\ x <= TypeMax(t)

\* Two's-complement wrap-around of a narrow type (a build without overflow checks).
Wrap(t, x) ==
    LET span == TypeMax(t) - TypeMin(t) + 1
    IN  ((x - TypeMin(t)) % span) + TypeMin(t)

\* Rust's %: the remainder of the truncating division, with the dividend's sign.
Rem(a, b) == IF a >= 0 THEN a % Abs(b) ELSE -((-a) % Abs(b))

(***************************************************************************)
(* ModExp::mod_exp                                                         *)
(***************************************************************************)
\* A loop body that forgets the reduction by the modulus.
LoopBodyNoReduce(t, checks, res, b, m) ==
    LET product == res * b
    IN  IF ~Fits(t, product) /\ checks
        THEN [fault |-> "overflow", result |-> res, wrapped |-> FALSE]
        ELSE [fault |-> "none",
              result |-> IF Fits(t, product) THEN product ELSE Wrap(t, product),
              wrapped |-> ~Fits(t, product)]

\* A loop body that reduces the accumulator before the multiplication, not the product.
LoopBodyReduceFirst(t, checks, res, b, m) ==
    LET product == (IF m = 0 THEN res ELSE Rem(res, m)) * b
    IN  IF ~Fits(t, product) /\ checks
        THEN [fault |-> "overflow", result |-> res, wrapped |-> FALSE]
        ELSE IF m = 0
        THEN [fault |-> "division by zero", result |-> res, wrapped |-> ~Fits(t, product)]
        ELSE [fault |-> "none",
              result |-> IF Fits(t, product) THEN product ELSE Wrap(t, product),
              wrapped |-> ~Fits(t, product)]

\* result = (result * base) % modulus
LoopBody(t, checks, res, b, m) ==
    LET product == res * b
    IN  IF ~Fits(t, product) /\ checks
        THEN [fault |-> "overflow", result |-> res, wrapped |-> FALSE]
        ELSE IF m = 0
        THEN [fault |-> "division by zero", result |-> res, wrapped |-> ~Fits(t, product)]
        ELSE [fault |-> "none",
              result |-> Rem(IF Fits(t, product) THEN product ELSE Wrap(t, product), m),
              wrapped |-> ~Fits(t, product)]

\* A loop that runs once more than the exponent.
LoopConditionInclusive(k, e) == k <= e

\* while i < exponent
LoopCondition(k, e) == k < e

\* The loop from the accumulator res and the counter k on.  (The singleton
\* set binds the iteration's outcome to its value, so that it is computed once.)
RECURSIVE ModExpLoop(_, _, _, _, _, _, _)
ModExpLoop(t, checks, res, k, b, e, m) ==
    IF ~LoopCondition(k, e)
    THEN [fault |-> "none", value |-> res]
    ELSE CHOOSE out \in
             {IF s.fault # "none"
              THEN [fault |-> s.fault, value |-> res]
              ELSE ModExpLoop(t, checks, s.result, k + 1, b, e, m)
                 : s \in {LoopBody(t, checks, res, b, m)}} : TRUE

\* The whole call, as fermat_primality_test uses it.
mod_exp(t, checks, b, e, m) ==
    IF m = 1
    THEN [fault |-> "none", value |-> 0]
    ELSE ModExpLoop(t, checks, 1, 0, b, e, m)

ModExpEntry ==
    /\ op = "mod_exp" /\ pc = "start"
    /\ UNCHANGED op
    /\ IF modulus = 1
       THEN /\ ret' = 0
            /\ pc' = "done"
            /\ UNCHANGED <<result, i>>
       ELSE /\ result' = 1
            /\ i' = 0
            /\ pc' = "loop"
            /\ UNCHANGED ret
    /\ UNCHANGED <<fault, ty, overflow_checks, base, exponent, modulus, wrapped, n>>
    /\ UNCHANGED <<generateVars, trialVars, fermatVars>>

ModExpIterate ==
    /\ op = "mod_exp" /\ pc = "loop"
    /\ UNCHANGED op
    /\ LoopCondition(i, exponent)
    /\ LET s == LoopBody(ty, overflow_checks, result, base, modulus)
       IN  IF s.fault # "none"
           THEN /\ pc' = "panic"
                /\ fault' = s.fault
                /\ UNCHANGED <<result, i, wrapped>>
           ELSE /\ result' = s.result
                /\ i' = i + 1
                /\ wrapped' = (wrapped \/ s.wrapped)
                /\ UNCHANGED <<pc, fault>>
    /\ UNCHANGED <<ret, ty, overflow_checks, base, exponent, modulus, n>>
    /\ UNCHANGED <<generateVars, trialVars, fermatVars>>

ModExpReturn ==
    /\ op = "mod_exp" /\ pc = "loop"
    /\ UNCHANGED op
    /\ ~LoopCondition(i, exponent)
    /\ ret' = result
    /\ pc' = "done"
    /\ UNCHANGED <<fault, i, n, modExpVars, generateVars, trialVars, fermatVars>>

(***************************************************************************)
(* generate                                                                *)
(***************************************************************************)
\* Indexing with the value itself instead of the shifted index.
FlagIndexUnshifted(value) == value

\* "value with index 0 stands for one": the flag of value is at index value - 1.
FlagIndex(value) == value - 1

\* A Vec index is in bounds (indices count from 0, sequence positions from 1).
InBounds(flags, index) == 0 <= index /\ index < Len(flags)

Multiple(p, k) == p * k

\* A break that also stops at upto itself.
InnerBreakAtUpto(multiple, limit) == multiple >= limit

\* if multiple > upto { break; }
InnerBreak(multiple, limit) == multiple > limit

RECURSIVE CollectFrom(_, _)
CollectFrom(flags, index) ==
    IF index >= Len(flags)
    THEN <<>>
    ELSE (IF flags[index + 1] THEN <<index + 1>> ELSE <<>>) \o CollectFrom(flags, index + 1)

\* prime_flags.into_iter().enumerate().filter_map(..).collect()
Collect(flags) == CollectFrom(flags, 0)

GenerateStart ==
    /\ op = "generate" /\ pc = "start"
    /\ UNCHANGED op
    /\ LET flags == [k \in 1..upto |-> TRUE]
       IN  IF InBounds(flags, 0)
           THEN /\ prime_flags' = [flags EXCEPT ![1] = FALSE]
                /\ current_smallest_prime' = 2
                /\ pc' = "scan"
                /\ UNCHANGED fault
           ELSE /\ prime_flags' = flags
                /\ pc' = "panic"
                /\ fault' = "index out of bounds"
                /\ UNCHANGED current_smallest_prime
    /\ UNCHANGED <<ret, i, n, upto, current_multiplier>>
    /\ UNCHANGED <<modExpVars, trialVars, fermatVars>>

GenerateScan ==
    /\ op = "generate" /\ pc = "scan"
    /\ UNCHANGED op
    /\ current_smallest_prime <= upto
    /\ LET index == FlagIndex(current_smallest_prime)
       IN  IF ~InBounds(prime_flags, index)
           THEN /\ pc' = "panic"
                /\ fault' = "index out of bounds"
                /\ UNCHANGED <<current_smallest_prime, current_multiplier>>
           ELSE IF prime_flags[index + 1]
           THEN /\ current_multiplier' = 2
                /\ pc' = "mark"
                /\ UNCHANGED <<fault, current_smallest_prime>>
           ELSE /\ current_smallest_prime' = current_smallest_prime + 1
                /\ UNCHANGED <<pc, fault, current_multiplier>>
    /\ UNCHANGED <<ret, i, n, upto, prime_flags>>
    /\ UNCHANGED <<modExpVars, trialVars, fermatVars>>

GenerateMark ==
    /\ op = "generate" /\ pc = "mark"
    /\ UNCHANGED op
    /\ LET multiple == Multiple(current_smallest_prime, current_multiplier)
           index == FlagIndex(multiple)
       IN  IF InnerBreak(multiple, upto)
           THEN /\ current_smallest_prime' = current_smallest_prime + 1
                /\ pc' = "scan"
                /\ UNCHANGED <<fault, prime_flags, current_multiplier>>
           ELSE IF ~InBounds(prime_flags, index)
           THEN /\ pc' = "panic"
                /\ fault' = "index out of bounds"
                /\ UNCHANGED <<prime_flags, current_smallest_prime, current_multiplier>>
           ELSE /\ prime_flags' = [prime_flags EXCEPT ![index + 1] = FALSE]
                /\ current_multiplier' = current_multiplier + 1
                /\ UNCHANGED <<pc, fault, current_smallest_prime>>
    /\ UNCHANGED <<ret, i, n, upto>>
    /\ UNCHANGED <<modExpVars, trialVars, fermatVars>>

GenerateCollect ==
    /\ op = "generate" /\ pc = "scan"
    /\ UNCHANGED op
    /\ ~(current_smallest_prime <= upto)
    /\ ret' = Collect(prime_flags)
    /\ pc' = "done"
    /\ UNCHANGED <<fault, i, n, modExpVars, generateVars, trialVars, fermatVars>>

(***************************************************************************)
(* is_prime_trial                                                          *)
(***************************************************************************)
\* A divisor range that stops short of the square root.
SquareRootExclusive(m) == Isqrt(m) - 1

\* (n as f64).sqrt().trunc() as u64.  A u64 below 2^53 converts to f64 exactly,
\* f64::sqrt is correctly rounded, and for every n that TLC's integers can hold
\* (below 2^31) the truncated root is the integer square root.
SquareRoot(m) == Isqrt(m)

is_prime_trial(m) ==
    IF m <= 1
    THEN FALSE
    ELSE ~(\E d \in 2..SquareRoot(m) : m % d = 0)

TrialEntry ==
    /\ op = "is_prime_trial" /\ pc = "start"
    /\ UNCHANGED op
    /\ IF n <= 1
       THEN /\ ret' = FALSE
            /\ pc' = "done"
            /\ UNCHANGED <<square_root, i>>
       ELSE /\ square_root' = SquareRoot(n)
            /\ i' = 2
            /\ pc' = "any"
            /\ UNCHANGED ret
    /\ UNCHANGED <<fault, n, tests, modExpVars, generateVars, fermatVars>>

TrialTest ==
    /\ op = "is_prime_trial" /\ pc = "any"
    /\ UNCHANGED op
    /\ i <= square_root
    /\ tests' = tests + 1
    /\ IF n % i = 0
       THEN /\ ret' = FALSE
            /\ pc' = "done"
            /\ UNCHANGED i
       ELSE /\ i' = i + 1
            /\ UNCHANGED <<ret, pc>>
    /\ UNCHANGED <<fault, n, square_root, modExpVars, generateVars, fermatVars>>

TrialExhausted ==
    /\ op = "is_prime_trial" /\ pc = "any"
    /\ UNCHANGED op
    /\ ~(i <= square_root)
    /\ ret' = TRUE
    /\ pc' = "done"
    /\ UNCHANGED <<fault, i, n, modExpVars, generateVars, trialVars, fermatVars>>

(***************************************************************************)
(* fermat_primality_test                                                   *)
(***************************************************************************)
\* A special case that forgets 3.
SmallCaseBelowThree(m) == m < 3

\* if n < 4 { return true; }
SmallCase(m) == m < 4

\* The exponent n instead of n - 1.
FermatExponentN(m) == m

\* mod_exp(random_number, n-1, n)
FermatExponent(m) == m - 1

\* A round that passes on any non-zero power.
RoundPassesNonZero(value) == value # 0

\* A round passes unless mod_exp(..) != 1.
RoundPasses(value) == value = 1

\* rng.gen_range(low..=high): any value of the closed range.
GenRange(low, high) == low..high

FermatEntry ==
    /\ op = "fermat" /\ pc = "start"
    /\ UNCHANGED op
    /\ IF n < 2
       THEN /\ ret' = FALSE
            /\ pc' = "done"
            /\ UNCHANGED i
       ELSE IF SmallCase(n)
       THEN /\ ret' = TRUE
            /\ pc' = "done"
            /\ UNCHANGED i
       ELSE /\ i' = 0
            /\ pc' = "loop"
            /\ UNCHANGED ret
    /\ UNCHANGED <<fault, n, modExpVars, generateVars, trialVars, fermatVars>>

FermatDraw ==
    /\ op = "fermat" /\ pc = "loop"
    /\ UNCHANGED op
    /\ i < repeats_count
    /\ IF GenRange(2, n - 2) = {}
       THEN /\ pc' = "panic"
            /\ fault' = "empty range"
            /\ UNCHANGED random_number
       ELSE /\ random_number' \in GenRange(2, n - 2)
            /\ pc' = "drawn"
            /\ UNCHANGED fault
    /\ call_args' = <<>>
    /\ UNCHANGED <<ret, i, n, repeats_count, calls>>
    /\ UNCHANGED <<modExpVars, generateVars, trialVars>>

FermatCheck ==
    /\ op = "fermat" /\ pc = "drawn"
    /\ UNCHANGED op
    /\ calls' = calls + 1
    /\ call_args' = <<random_number, FermatExponent(n), n>>
    /\ LET r == mod_exp("u64", overflow_checks, random_number, FermatExponent(n), n)
       IN  IF r.fault # "none"
           THEN /\ pc' = "panic"
                /\ fault' = r.fault
                /\ UNCHANGED <<ret, i>>
           ELSE IF ~RoundPasses(r.value)
           THEN /\ ret' = FALSE
                /\ pc' = "done"
                /\ UNCHANGED <<fault, i>>
           ELSE /\ i' = i + 1
                /\ pc' = "loop"
                /\ UNCHANGED <<ret, fault>>
    /\ UNCHANGED <<n, repeats_count, random_number, modExpVars, generateVars, trialVars>>

FermatExit ==
    /\ op = "fermat" /\ pc = "loop"
    /\ UNCHANGED op
    /\ ~(i < repeats_count)
    /\ ret' = TRUE
    /\ pc' = "done"
    /\ UNCHANGED <<fault, i, n, modExpVars, generateVars, trialVars, fermatVars>>

(***************************************************************************)
(* The arguments of the calls.                                             *)
(***************************************************************************)
Low(t) == IF Signed(t) THEN -NegSpan ELSE 0

\* Around the largest modulus whose (modulus - 1)^2 the type can hold.
EdgeInputs(t) ==
    IF t \in NarrowTypes
    THEN LET r == Isqrt(TypeMax(t))
         IN  {<<b, e, m>> : b \in {r - 1, r, r + 1, TypeMax(t)}, e \in 2..3, m \in {r + 1, r + 2}}
    ELSE {}

ModExpInputs(t) ==
    {<<b, e, m>> : b \in Low(t)..MaxBase, e \in Low(t)..MaxExponent, m \in 0..MaxModulus}
        \cup EdgeInputs(t)
        \cup {v \in ModExpTestVectors : Fits(t, v[3])}

RepeatsInputs == (0..MaxRepeats) \cup {ZeroTestRepeats, TestRepeats}

IdleModExp ==
    /\ ty = "u64" /\ overflow_checks = FALSE
    /\ base = 0 /\ exponent = 0 /\ modulus = 0 /\ result = 0 /\ wrapped = FALSE

IdleGenerate ==
    /\ upto = 0 /\ prime_flags = <<>>
    /\ current_smallest_prime = 0 /\ current_multiplier = 0

IdleTrial == square_root = 0 /\ tests = 0

IdleFermat ==
    /\ repeats_count = 0 /\ random_number = 0 /\ calls = 0 /\ call_args = <<>>

InitModExp ==
    /\ op = "mod_exp"
    /\ ty \in Types
    /\ overflow_checks \in BOOLEAN
    /\ \E v \in ModExpInputs(ty) : base = v[1] /\ exponent = v[2] /\ modulus = v[3]
    /\ result = 0 /\ wrapped = FALSE
    /\ n = 0
    /\ IdleGenerate /\ IdleTrial /\ IdleFermat

InitGenerate ==
    /\ op = "generate"
    /\ upto \in 0..MaxUpto
    /\ prime_flags = <<>>
    /\ current_smallest_prime = 0 /\ current_multiplier = 0
    /\ n = 0
    /\ IdleModExp /\ IdleTrial /\ IdleFermat

InitTrial ==
    /\ op = "is_prime_trial"
    /\ n \in 0..MaxN
    /\ IdleModExp /\ IdleGenerate /\ IdleTrial /\ IdleFermat

InitFermat ==
    /\ op = "fermat"
    /\ n \in 0..MaxN
    /\ repeats_count \in RepeatsInputs
    /\ random_number = 0 /\ calls = 0 /\ call_args = <<>>
    /\ IdleModExp /\ IdleGenerate /\ IdleTrial

Init ==
    /\ pc = "start" /\ fault = "none" /\ ret = "none" /\ i = 0
    /\ (InitModExp \/ InitGenerate \/ InitTrial \/ InitFermat)

Next ==
    \/ ModExpEntry
    \/ ModExpIterate
    \/ ModExpReturn
    \/ GenerateStart
    \/ GenerateScan
    \/ GenerateMark
    \/ GenerateCollect
    \/ TrialEntry
    \/ TrialTest
    \/ TrialExhausted
    \/ FermatEntry
    \/ FermatDraw
    \/ FermatCheck
    \/ FermatExit

Spec == Init /\ [][Next]_vars

Terminated == pc \in {"done", "panic"}

(***************************************************************************)
(* The claims.                                                             *)
(***************************************************************************)
PrimesUpTo(limit) == {p \in 2..limit : IsPrime(p)}

StrictlyIncreasing(s) == \A j, k \in DOMAIN s : j < k => s[j] < s[k]

\* C1: for every upto >= 1, generate(upto) returns exactly the primes p with
\* 2 <= p <= upto, as a strictly increasing sequence without duplicates;
\* generate(30) = [2,3,5,7,11,13,17,19,23,29].
C1_GenerateReturnsThePrimes ==
    (op = "generate" /\ pc = "done" /\ upto >= 1) =>
        /\ Range(ret) = PrimesUpTo(upto)
        /\ StrictlyIncreasing(ret)
        /\ Len(ret) = Cardinality(PrimesUpTo(upto))
        /\ (upto = 30 => ret = <<2, 3, 5, 7, 11, 13, 17, 19, 23, 29>>)

C1_Witness ==
    op = "generate" /\ pc = "done" /\ upto = 30 /\ Len(ret) = 10

\* C2: generate(0) and generate(1) complete normally and return the empty
\* sequence; no step of generate indexes outside the flag collection.
C2_SmallUptoReturnsEmpty ==
    (op = "generate" /\ upto <= 1) =>
        /\ pc # "panic"
        /\ fault # "index out of bounds"
        /\ (pc = "done" => ret = <<>>)

\* C3: trial division agrees with the sieve: for every m in 0..N, is_prime_trial(m)
\* is true iff m appears in generate(N); 0 and 1 and the squares of primes
\* (4, 9, 25, 49) are not prime.  The stepwise run of is_prime_trial returns
\* the same answer.
C3_TrialAgreesWithSieve ==
    /\ (op = "generate" /\ pc = "done") =>
           \A m \in 0..upto : is_prime_trial(m) <=> (m \in Range(ret))
    /\ (op = "is_prime_trial" /\ pc = "done") =>
           /\ ret = is_prime_trial(n)
           /\ ret = IsPrime(n)

C3_Witness ==
    /\ op = "generate" /\ pc = "done" /\ upto = 49
    /\ \A m \in {0, 1, 4, 9, 25, 49} : ~is_prime_trial(m) /\ m \notin Range(ret)
    /\ \A m \in {2, 3, 47} : is_prime_trial(m) /\ m \in Range(ret)

\* C4: for non-negative base and exponent and modulus >= 1, when no intermediate
\* product overflows, mod_exp(base, exponent, modulus) is base^exponent mod
\* modulus and lies in 0..modulus-1: 0 when modulus = 1, 1 when exponent = 0 and
\* modulus > 1; mod_exp(4,13,497) = 445 and mod_exp(5,3,13) = 8.
C4_ModExpValue ==
    (op = "mod_exp" /\ pc = "done" /\ base >= 0 /\ exponent >= 0 /\ modulus >= 1 /\ ~wrapped) =>
        /\ ret = PowMod(base, exponent, modulus)
        /\ ret \in 0..(modulus - 1)
        /\ (modulus = 1 => ret = 0)
        /\ (exponent = 0 /\ modulus > 1 => ret = 1)
        /\ (<<base, exponent, modulus>> = <<4, 13, 497>> => ret = 445)
        /\ (<<base, exponent, modulus>> = <<5, 3, 13>> => ret = 8)

C4_Witness ==
    /\ op = "mod_exp" /\ pc = "done" /\ ~wrapped
    /\ base = 4 /\ exponent = 13 /\ modulus = 497 /\ ret = 445

TestedRepeats(m) == IF m = 0 THEN {ZeroTestRepeats, TestRepeats} ELSE {TestRepeats}

\* The witnesses a of 2..m-2 with a^(m-1) mod m = 1 for the composites of the tests.
FermatLiars(m) ==
    CASE m = 15 -> {4, 11}
      [] m = 21 -> {8, 13}
      [] OTHER -> {}

C7_WitnessRange ==
    op = "fermat" =>
        /\ fault = "none" /\ pc # "panic"
        /\ (n < 4 => random_number = 0 /\ calls = 0 /\ call_args = <<>> /\ pc \in {"start", "done"})
        /\ (pc = "done" /\ n < 2 => ret = FALSE)
        /\ (pc = "done" /\ n \in {2, 3} => ret = TRUE)
        /\ (random_number # 0 => n >= 4 /\ random_number \in 2..(n - 2))
        /\ (calls > 0 => random_number # 0)
        /\ (call_args # <<>> =>
               /\ call_args = <<random_number, n - 1, n>>
               /\ call_args[1] \in 2..(n - 2))

C7_Witness ==
    /\ op = "fermat" /\ pc = "done" /\ ret = TRUE
    /\ n = 3 /\ repeats_count = TestRepeats /\ random_number = 0 /\ calls = 0

\* C8 as stated: if modulus > 1 and (modulus-1)*(modulus-1) is representable in
\* the type, then for every base and exponent of the type no product result*base
\* of the loop overflows.
C8_SquareFitsSoNoOverflow ==
    (op = "mod_exp" /\ modulus > 1 /\ Fits(ty, (modulus - 1) * (modulus - 1))) =>
        (fault # "overflow" /\ ~wrapped)

\* C8 amended: if modulus > 1 and (modulus-1)*(modulus-1) is representable in
\* the type, then for every exponent and every base with |base| <= modulus - 1
\* no product result*base of the loop overflows.
C8_ReducedBaseSoNoOverflow ==
    (op = "mod_exp" /\ modulus > 1 /\ Fits(ty, (modulus - 1) * (modulus - 1))
        /\ Abs(base) <= modulus - 1) =>
        /\ fault # "overflow" /\ ~wrapped
        /\ (pc = "loop" => Abs(result) <= modulus - 1 /\ Fits(ty, result * base))

C8_Witness ==
    /\ op = "mod_exp" /\ pc = "done" /\ ty = "u8" /\ overflow_checks
    /\ modulus = 16 /\ base = 15 /\ exponent = 3 /\ i = 3

\* What C9 says of generate, is_prime_trial and fermat_primality_test: the scan
\* has visited every p of 2..upto when generate returns, and a marking loop has
\* marked no multiple above upto; is_prime_trial makes at most isqrt(n) - 1
\* divisibility tests; fermat_primality_test makes one mod_exp call per round, at
\* most repeats_count of them, and returns false at the first round that fails.
C9_OtherCounts ==
    /\ (op = "generate" /\ pc = "done") => current_smallest_prime = upto + 1
    /\ (op = "generate" /\ pc = "mark") =>
           /\ current_smallest_prime \in 2..upto
           /\ current_multiplier >= 2
           /\ Multiple(current_smallest_prime, current_multiplier - 1) <= upto
    /\ (op = "is_prime_trial") => tests <= Max(Isqrt(n) - 1, 0)
    /\ (op = "fermat") =>
           /\ calls <= repeats_count
           /\ (pc = "loop" => calls = i)
           /\ (pc = "drawn" => calls = i /\ i < repeats_count)
           /\ (pc = "done" /\ n >= 4 /\ ret = TRUE => calls = repeats_count /\ i = repeats_count)
           /\ (pc = "done" /\ n >= 4 /\ ret = FALSE => calls = i + 1)

C9_Counts ==
    /\ (op = "mod_exp" /\ pc = "done") =>
           i = (IF modulus = 1 THEN 0 ELSE Max(exponent, 0))
    /\ (op = "mod_exp" /\ pc = "panic") =>
           /\ i < Max(exponent, 0)
           /\ fault \in {"overflow", "division by zero"}
           /\ (fault = "division by zero" => modulus = 0)
           /\ (fault = "overflow" => overflow_checks)
    /\ C9_OtherCounts

\* An upper bound, computed from the arguments alone, on the steps the call has left.
StepsLeft ==
    CASE Terminated -> 0
      [] op = "mod_exp" /\ pc = "start" -> Max(exponent, 0) + 2
      [] op = "mod_exp" /\ pc = "loop" -> Max(exponent - i, 0) + 1
      [] op = "generate" /\ pc = "start" -> (upto + 2) * (upto + 2) + 1
      [] op = "generate" /\ pc = "scan" ->
            (upto + 1 - current_smallest_prime) * (upto + 2) + 1
      [] op = "generate" /\ pc = "mark" ->
            (upto - current_smallest_prime) * (upto + 2) + 1 + (upto + 2 - current_multiplier)
      [] op = "is_prime_trial" /\ pc = "start" -> n + 3
      [] op = "is_prime_trial" /\ pc = "any" -> Max(square_root + 1 - i, 0) + 1
      [] op = "fermat" /\ pc = "start" -> 2 * repeats_count + 3
      [] op = "fermat" /\ pc = "loop" -> 2 * (repeats_count - i) + 1
      [] op = "fermat" /\ pc = "drawn" -> 2 * (repeats_count - i)

\* A call that has not returned or panicked has a next step.
NeverStuck == Terminated \/ ENABLED Next

FlagsFinalBelowSquare ==
    (op = "generate") =>
        /\ (pc = "scan" /\ current_smallest_prime <= upto) =>
               \A v \in 1..upto :
                   v < current_smallest_prime * current_smallest_prime =>
                       (prime_flags[v] <=> IsPrime(v))
        /\ (pc = "mark") => IsPrime(current_smallest_prime)

FlagsOnlyCleared ==
    /\ DOMAIN prime_flags # {} => DOMAIN prime_flags' = DOMAIN prime_flags
    /\ \A k \in DOMAIN prime_flags : ~prime_flags[k] => ~prime_flags'[k]

\* C10: in generate(upto), upto >= 1, a flag only ever changes from true to
\* false, and whenever the scan is about to examine p (2 <= p <= upto) every v
\* with 1 <= v < p*p and v <= upto has its final flag (true iff v is prime); so
\* p's own flag is final and multiples are marked only for a prime p.
C10_SieveInvariant == []FlagsFinalBelowSquare /\ [][FlagsOnlyCleared]_vars

C10_Witness ==
    /\ op = "generate" /\ pc = "scan" /\ upto = 50
    /\ current_smallest_prime = 7
    /\ prime_flags[49] /\ ~prime_flags[35] /\ prime_flags[47]

====
